---------------------------- MODULE Spec2Model ----------------------------
(***************************************************************************)
(* A model of src/main.py: the ESP32ObjectDetector class.                  *)
(*                                                                         *)
(*   SpecTracker  announce_objects called directly, call after call        *)
(*   SpecRun      run(): the capture / detect / save / announce / show /   *)
(*                poll / sleep loop and its exit paths                     *)
(*   SpecScan     __init__: get_default_gateway_network, discover_esp32    *)
(*                with its thread pool of verify_esp32_camera probes       *)
(***************************************************************************)
EXTENDS Naturals, Sequences, FiniteSets

\* ------------------------------------------------------------------ bounds
\* calls of announce_objects in SpecTracker
MaxCalls == 3
\* loop iterations of run() in SpecRun
MaxIter == 3

\* hosts scanned per prefix: range(1, 255) in the source, 1..LastHost here
LastHost == 3
\* ThreadPoolExecutor(max_workers=50) in the source, MaxWorkers here
MaxWorkers == 2

\* direct calls of verify_esp32_camera in SpecProbe
MaxProbes == 3
\* direct calls of capture_image in SpecCapture
MaxCaptures == 3
\* clock ticks per second, and the last tick, in SpecCapture
TicksPerSecond == 2
MaxTime == 5

\* def __init__(self, capture_interval=2): seconds
capture_interval == 2

\* the class names the detector can report (a small sample)
Labels == {"dog", "cat", "person"}

Hosts == 1..LastHost
\* the third octets the default gateway a.b.c.d is drawn from
Thirds == {0, 1, 2}
\* self.esp32_url = None
None == <<>>

VARIABLES
    \* --- the detector object
    last_announced,     \* self.last_announced
    esp32_url,          \* self.esp32_url ("None" or an address <<net, host>>)
    windowOpen,         \* the cv2 window exists (namedWindow .. destroyAllWindows)
    \* --- run()
    pc,                 \* position of run(): capture, detect, save, announce,
                        \* show, poll, sleep, finally, returned ("idle" outside run)
    exitReason,         \* none | quit | interrupt | error
    image,              \* "none" or "frame": the local variable image
    detected_objects,   \* the local variable detected_objects
    iter,               \* number of loop iterations started
    quitPending,        \* a 'q' key press delivered to the window, not yet read
    \* --- history of run() and of the speech engine
    sayLog,             \* the label sets handed to engine.say, in order
    sayIters,           \* for each entry of sayLog, the iteration that spoke it
    detLog,             \* per iteration: [frame, labels]
    polled,             \* calls of cv2.waitKey in the current iteration
    pendingAtStart,     \* quitPending when the current iteration started
    captureCount,       \* calls of capture_image
    \* --- history of direct calls of announce_objects (SpecTracker)
    callLog,            \* the arguments, in order
    outLog,             \* new_objects of every call that returned
    trackerRaised,      \* a call raised
    \* --- the environment of __init__
    hasGateway,         \* netifaces reports a default IPv4 gateway
    gatewayThird,       \* third octet of the default gateway a.b.c.d
    cameras,            \* the addresses <<net, host>> that pass both checks
    \* --- discover_esp32
    scanPc,             \* start, submit, collect, exit, returned,
                        \* constructed, raised ("idle" outside __init__)
    scanError,          \* none | gateway | discovery | nourl
    networks,           \* the local variable networks
    netIdx,             \* index in networks of the prefix being scanned
    probe,              \* per host of the prefix: new, queued, status,
                        \* capture, done (the future of verify_esp32_camera)
    result,             \* per host: the future's result is a base URL
    consumed,           \* hosts whose future as_completed has yielded
    \* --- history of the probes of the current executor, as sets of addresses
    statusOK,           \* /status answered 200
    statusFailed,       \* /status answered otherwise, or the request raised
    captureIssued,      \* GET /capture was sent
    probedNets,         \* indexes in networks of the prefixes with a probe started
    exhausted,          \* indexes of the prefixes left with every probe done
                        \* and no match
    \* --- more history of run()
    sinceCapture,       \* seconds since the last capture started, counted up
                        \* to capture_interval
    lastGap,            \* sinceCapture when the last capture started
    stages,             \* the stages the current iteration has run
    savedLog,           \* the files written: [labels, segment]
    lastAtStart,        \* last_announced when the current iteration started
    \* --- verify_esp32_camera called directly (SpecProbe)
    vPc,                \* idle, status, capture
    probeLog,           \* per finished call: [status, capture, result]
    \* --- capture_image called directly (SpecCapture)
    now,                \* wall-clock time in ticks of 1/TicksPerSecond s
    callTimes,          \* the time of each call
    cbLog               \* the _cb value of each request

objVars == <<last_announced, esp32_url, windowOpen>>
runVars == <<pc, exitReason, image, detected_objects, iter, quitPending>>
runHist == <<sayIters, detLog, polled, pendingAtStart, captureCount>>
trackerHist == <<callLog, outLog, trackerRaised>>
scanEnv == <<hasGateway, gatewayThird, cameras>>
scanState == <<scanPc, scanError, networks, netIdx, probe, result, consumed>>
scanHist == <<statusOK, statusFailed, captureIssued>>
scanHist2 == <<probedNets, exhausted>>
runHist2 == <<sinceCapture, lastGap, stages, savedLog, lastAtStart>>
probeVars == <<vPc, probeLog>>
clockVars == <<now, callTimes, cbLog>>
scanVars == <<scanEnv, scanState, scanHist, scanHist2, probeVars, clockVars>>
vars == <<objVars, runVars, sayLog, runHist, trackerHist, scanVars, runHist2>>

Last(s) == s[Len(s)]

\* ------------------------------------------------------- announce_objects
\* new_objects = objects - self.last_announced
NewObjects(objects) == objects \ last_announced

\* engine.say / engine.runAndWait is reached and raises
announce_raises(objects, speechOK) ==
    /\ objects # {}
    /\ NewObjects(objects) # {}
    /\ ~speechOK

\* mutants of announce_objects
announce_objects_union(objects, speechOK) ==
    IF objects = {}
    THEN UNCHANGED <<last_announced, sayLog>>
    ELSE /\ sayLog' = IF NewObjects(objects) # {}
                      THEN Append(sayLog, NewObjects(objects)) ELSE sayLog
         /\ last_announced' = IF announce_raises(objects, speechOK)
                              THEN last_announced
                              ELSE last_announced \cup objects

announce_objects_nostore(objects, speechOK) ==
    IF objects = {}
    THEN UNCHANGED <<last_announced, sayLog>>
    ELSE /\ sayLog' = IF NewObjects(objects) # {}
                      THEN Append(sayLog, NewObjects(objects)) ELSE sayLog
         /\ UNCHANGED last_announced

announce_objects_sayall(objects, speechOK) ==
    IF objects = {}
    THEN UNCHANGED <<last_announced, sayLog>>
    ELSE /\ sayLog' = Append(sayLog, objects)
         /\ last_announced' = IF announce_raises(objects, speechOK)
                              THEN last_announced
                              ELSE objects

announce_objects_noguard(objects, speechOK) ==
    /\ sayLog' = IF NewObjects(objects) # {}
                 THEN Append(sayLog, NewObjects(objects)) ELSE sayLog
    /\ last_announced' = IF announce_raises(objects, speechOK)
                         THEN last_announced
                         ELSE objects

\* announce_objects(self, objects); speechOK: the speech engine does not raise
announce_objects(objects, speechOK) ==
    IF objects = {}
    THEN UNCHANGED <<last_announced, sayLog>>
    ELSE /\ sayLog' = IF NewObjects(objects) # {}
                      THEN Append(sayLog, NewObjects(objects)) ELSE sayLog
         /\ last_announced' = IF announce_raises(objects, speechOK)
                              THEN last_announced
                              ELSE objects

\* the environment and the scan variables once __init__ has returned with a
\* camera found at host 1 of the gateway's own prefix
Constructed ==
    /\ hasGateway = TRUE
    /\ gatewayThird = 0
    /\ cameras = {<<0, 1>>}
    /\ scanPc = "constructed"
    /\ scanError = "none"
    /\ networks = <<0, 1>>
    /\ netIdx = 1
    /\ probe = [h \in Hosts |-> "done"]
    /\ result = [h \in Hosts |-> h = 1]
    /\ consumed = {1}
    /\ statusOK = {<<0, 1>>}
    /\ statusFailed = {<<0, h>> : h \in Hosts \ {1}}
    /\ captureIssued = {<<0, 1>>}

\* the history and the direct-call variables before anything has run
InitHistory ==
    /\ probedNets = {}
    /\ exhausted = {}
    /\ sinceCapture = 0
    /\ lastGap = 0
    /\ stages = <<>>
    /\ savedLog = <<>>
    /\ lastAtStart = {}
    /\ vPc = "idle"
    /\ probeLog = <<>>
    /\ now = 0
    /\ callTimes = <<>>
    /\ cbLog = <<>>

\* ------------------------------------------------------------ SpecTracker
InitTracker ==
    /\ last_announced = {}
    /\ esp32_url = <<0, 1>>
    /\ windowOpen = TRUE
    /\ pc = "idle"
    /\ exitReason = "none"
    /\ image = "none"
    /\ detected_objects = {}
    /\ iter = 0
    /\ quitPending = FALSE
    /\ sayLog = <<>>
    /\ sayIters = <<>>
    /\ detLog = <<>>
    /\ polled = 0
    /\ pendingAtStart = FALSE
    /\ captureCount = 0
    /\ callLog = <<>>
    /\ outLog = <<>>
    /\ trackerRaised = FALSE
    /\ Constructed
    /\ InitHistory

\* one direct call detector.announce_objects(objects)
TrackerCall ==
    /\ Len(callLog) < MaxCalls
    /\ ~trackerRaised
    /\ \E objects \in SUBSET Labels, speechOK \in BOOLEAN :
          /\ announce_objects(objects, speechOK)
          /\ callLog' = Append(callLog, objects)
          /\ trackerRaised' = announce_raises(objects, speechOK)
          /\ outLog' = IF announce_raises(objects, speechOK)
                       THEN outLog
                       ELSE Append(outLog, NewObjects(objects))
    /\ UNCHANGED <<esp32_url, windowOpen, runVars, runHist, scanVars, runHist2>>

NextTracker == TrackerCall

SpecTracker == InitTracker /\ [][NextTracker]_vars


\* ---------------------------------------------------------------- run()
LoopPcs == {"capture", "detect", "save", "announce", "show", "poll", "sleep"}

InitRun ==
    /\ last_announced = {}
    /\ esp32_url = <<0, 1>>
    /\ windowOpen = TRUE
    /\ pc = "capture"
    /\ exitReason = "none"
    /\ image = "none"
    /\ detected_objects = {}
    /\ iter = 0
    /\ quitPending = FALSE
    /\ sayLog = <<>>
    /\ sayIters = <<>>
    /\ detLog = <<>>
    /\ polled = 0
    /\ pendingAtStart = FALSE
    /\ captureCount = 0
    /\ callLog = <<>>
    /\ outLog = <<>>
    /\ trackerRaised = FALSE
    /\ Constructed
    /\ InitHistory

\* except Exception as e: print(...), on the way to finally
RaiseToHandler ==
    /\ pc' = "finally"
    /\ exitReason' = "error"

\* what the GET of capture_image can end in: 200 with an image, 200 with a
\* body Image.open rejects, another status code, an exception of requests
CaptureOutcomes == {"image", "undecodable", "non200", "exception"}

\* mutant of capture_image: no try/except around the request
capture_image_notry(outcome) ==
    CASE outcome = "image" -> "frame"
      [] outcome = "non200" -> "none"
      [] OTHER -> "raise"

\* capture_image: the frame, None (every failure is caught by
\* except Exception, a status other than 200 falls through to return None)
capture_image(outcome) ==
    CASE outcome = "image" -> "frame"
      [] outcome = "non200" -> "none"
      [] outcome = "undecodable" -> "none"
      [] outcome = "exception" -> "none"

\* elapsed seconds are counted up to capture_interval
Saturate(t) == IF t > capture_interval THEN capture_interval ELSE t

\* mutant of Capture: an iteration without a frame forgets what was announced
Capture_resets ==
    /\ pc = "capture"
    /\ iter < MaxIter
    /\ iter' = iter + 1
    /\ captureCount' = captureCount + 1
    /\ polled' = 0
    /\ pendingAtStart' = quitPending
    /\ lastGap' = sinceCapture
    /\ stages' = <<>>
    /\ lastAtStart' = last_announced
    /\ \E outcome \in CaptureOutcomes, d \in 0..1 :
          /\ sinceCapture' = d
          /\ IF capture_image(outcome) = "frame"
             THEN /\ image' = "frame"
                  /\ pc' = "detect"
                  /\ UNCHANGED <<detLog, exitReason, last_announced>>
             ELSE /\ image' = "none"
                  /\ pc' = "sleep"
                  /\ last_announced' = {}
                  /\ detLog' = Append(detLog, [frame |-> FALSE, labels |-> {}])
                  /\ UNCHANGED exitReason
    /\ UNCHANGED <<esp32_url, windowOpen, detected_objects, quitPending,
                   sayLog, sayIters, trackerHist, scanVars, savedLog>>

\* image = self.capture_image(): a frame, or None on any failure (the
\* failure is swallowed inside capture_image); if image is not None: ...
\* d: the seconds the call takes
Capture ==
    /\ pc = "capture"
    /\ iter < MaxIter
    /\ iter' = iter + 1
    /\ captureCount' = captureCount + 1
    /\ polled' = 0
    /\ pendingAtStart' = quitPending
    /\ lastGap' = sinceCapture
    /\ stages' = <<>>
    /\ lastAtStart' = last_announced
    /\ \E outcome \in CaptureOutcomes, d \in 0..1 :
          /\ sinceCapture' = d
          /\ CASE capture_image(outcome) = "frame" ->
                    /\ image' = "frame"
                    /\ pc' = "detect"
                    /\ UNCHANGED <<detLog, exitReason>>
               [] capture_image(outcome) = "none" ->
                    /\ image' = "none"
                    /\ pc' = "sleep"
                    /\ detLog' = Append(detLog, [frame |-> FALSE, labels |-> {}])
                    /\ UNCHANGED exitReason
               [] OTHER ->
                    /\ image' = "none"
                    /\ RaiseToHandler
                    /\ detLog' = Append(detLog, [frame |-> FALSE, labels |-> {}])
    /\ UNCHANGED <<objVars, detected_objects, quitPending,
                   sayLog, sayIters, trackerHist, scanVars, savedLog>>

\* detected_objects, annotated_image = self.detect_objects(image);
\* if detected_objects: ...
Detect ==
    /\ pc = "detect"
    /\ \/ \E objects \in SUBSET Labels :
             /\ detected_objects' = objects
             /\ detLog' = Append(detLog, [frame |-> TRUE, labels |-> objects])
             /\ pc' = IF objects # {} THEN "save" ELSE "show"
             /\ UNCHANGED exitReason
       \/ /\ RaiseToHandler
          /\ UNCHANGED <<detected_objects, detLog>>
    /\ stages' = Append(stages, "detect")
    /\ UNCHANGED <<objVars, image, iter, quitPending, sayLog, sayIters,
                   polled, pendingAtStart, captureCount, trackerHist, scanVars,
                   sinceCapture, lastGap, savedLog, lastAtStart>>

\* the orders in which iterating over the set objects can yield its members
IterationOrders(objects) ==
    {o \in [1..Cardinality(objects) -> objects] :
        \A i, j \in 1..Cardinality(objects) : i # j => o[i] # o[j]}

\* str.__lt__ on the class names: "cat" < "dog" < "person"
StrLess(a, b) ==
    \/ a = "cat" /\ b \in {"dog", "person"}
    \/ a = "dog" /\ b = "person"

\* insert x into the sorted sequence s
RECURSIVE Insert(_, _)
Insert(x, s) ==
    IF s = <<>> THEN <<x>>
    ELSE IF StrLess(Head(s), x) THEN <<Head(s)>> \o Insert(x, Tail(s))
    ELSE <<x>> \o s

\* sorted(objects), objects being iterated in the order o
RECURSIVE sorted(_)
sorted(o) == IF o = <<>> THEN <<>> ELSE Insert(Head(o), sorted(Tail(o)))

\* "-".join(names)
RECURSIVE join(_)
join(names) ==
    IF names = <<>> THEN ""
    ELSE IF Len(names) = 1 THEN names[1]
    ELSE names[1] \o "-" \o join(Tail(names))

\* mutant of objects_str: "-".join(objects), without sorted
objects_str_unsorted(o) == join(o)

\* objects_str = "-".join(sorted(objects))
objects_str(o) == join(sorted(o))

\* self.save_image(annotated_image, detected_objects): image and objects are
\* there, so the file {timestamp}_{objects_str}.jpg is written
SaveImage ==
    /\ pc = "save"
    /\ \/ /\ pc' = "announce"
          /\ \E o \in IterationOrders(detected_objects) :
                savedLog' = Append(savedLog, [labels |-> detected_objects,
                                              segment |-> objects_str(o)])
          /\ UNCHANGED exitReason
       \/ /\ RaiseToHandler
          /\ UNCHANGED savedLog
    /\ stages' = Append(stages, "save")
    /\ UNCHANGED <<objVars, image, detected_objects, iter, quitPending,
                   sayLog, runHist, trackerHist, scanVars,
                   sinceCapture, lastGap, lastAtStart>>

\* self.announce_objects(detected_objects)
Announce ==
    /\ pc = "announce"
    /\ \E speechOK \in BOOLEAN :
          /\ announce_objects(detected_objects, speechOK)
          /\ IF announce_raises(detected_objects, speechOK)
             THEN RaiseToHandler
             ELSE pc' = "show" /\ UNCHANGED exitReason
    /\ sayIters' = IF Len(sayLog') > Len(sayLog)
                   THEN Append(sayIters, iter) ELSE sayIters
    /\ stages' = Append(stages, "announce")
    /\ UNCHANGED <<esp32_url, windowOpen, image, detected_objects, iter,
                   quitPending, detLog, polled, pendingAtStart, captureCount,
                   trackerHist, scanVars, sinceCapture, lastGap, savedLog,
                   lastAtStart>>

\* cv2.imshow('ESP32 Camera Feed', annotated_image)
Show ==
    /\ pc = "show"
    /\ \/ /\ pc' = "poll"
          /\ UNCHANGED exitReason
       \/ RaiseToHandler
    /\ stages' = Append(stages, "show")
    /\ UNCHANGED <<objVars, image, detected_objects, iter, quitPending,
                   sayLog, runHist, trackerHist, scanVars,
                   sinceCapture, lastGap, savedLog, lastAtStart>>

\* mutant of WaitKey: the key is read and the loop goes on
WaitKey_nobreak ==
    /\ pc = "poll"
    /\ polled' = polled + 1
    /\ quitPending' = FALSE
    /\ pc' = "sleep"
    /\ UNCHANGED <<objVars, exitReason, image, detected_objects, iter,
                   sayLog, sayIters, detLog, pendingAtStart, captureCount,
                   trackerHist, scanVars, runHist2>>

\* if cv2.waitKey(1) & 0xFF == ord('q'): break
WaitKey ==
    /\ pc = "poll"
    /\ polled' = polled + 1
    /\ quitPending' = FALSE
    /\ IF quitPending
       THEN pc' = "finally" /\ exitReason' = "quit"
       ELSE pc' = "sleep" /\ UNCHANGED exitReason
    /\ UNCHANGED <<objVars, image, detected_objects, iter,
                   sayLog, sayIters, detLog, pendingAtStart, captureCount,
                   trackerHist, scanVars, runHist2>>

\* mutant of Sleep: the sleep is in the branch that has a frame
Sleep_onlywithframe ==
    /\ pc = "sleep"
    /\ pc' = "capture"
    /\ sinceCapture' = IF image = "frame"
                       THEN Saturate(sinceCapture + capture_interval)
                       ELSE sinceCapture
    /\ UNCHANGED <<objVars, exitReason, image, detected_objects, iter,
                   quitPending, sayLog, runHist, trackerHist, scanVars,
                   lastGap, stages, savedLog, lastAtStart>>

\* time.sleep(self.capture_interval), then while True again
Sleep ==
    /\ pc = "sleep"
    /\ pc' = "capture"
    /\ sinceCapture' = Saturate(sinceCapture + capture_interval)
    /\ UNCHANGED <<objVars, exitReason, image, detected_objects, iter,
                   quitPending, sayLog, runHist, trackerHist, scanVars,
                   lastGap, stages, savedLog, lastAtStart>>

\* except KeyboardInterrupt: the user interrupts at any point of the loop
Interrupt ==
    /\ pc \in LoopPcs
    /\ pc' = "finally"
    /\ exitReason' = "interrupt"
    /\ UNCHANGED <<objVars, image, detected_objects, iter, quitPending,
                   sayLog, runHist, trackerHist, scanVars, runHist2>>

\* the user presses 'q' in the window
PressQ ==
    /\ pc \in LoopPcs
    /\ ~quitPending
    /\ quitPending' = TRUE
    /\ UNCHANGED <<objVars, pc, exitReason, image, detected_objects, iter,
                   sayLog, runHist, trackerHist, scanVars, runHist2>>

\* mutant of Finally: run() returns and the window is left open
Finally_norelease ==
    /\ pc = "finally"
    /\ pc' = "returned"
    /\ UNCHANGED <<objVars, exitReason, image, detected_objects, iter,
                   quitPending, sayLog, runHist, trackerHist, scanVars,
                   runHist2>>

\* finally: cv2.destroyAllWindows(), and run() returns
Finally ==
    /\ pc = "finally"
    /\ windowOpen' = FALSE
    /\ pc' = "returned"
    /\ UNCHANGED <<last_announced, esp32_url, exitReason, image,
                   detected_objects, iter, quitPending, sayLog, runHist,
                   trackerHist, scanVars, runHist2>>

NextRun ==
    \/ Capture
    \/ Detect
    \/ SaveImage
    \/ Announce
    \/ Show
    \/ WaitKey
    \/ Sleep
    \/ Interrupt
    \/ PressQ
    \/ Finally

SpecRun == InitRun /\ [][NextRun]_vars


\* ------------------------------------------------------------- __init__
\* Python values: an int and a str
PyInt(n) == [t |-> "int", v |-> n]
PyStr(x) == [t |-> "str", s |-> x]

\* a != b: values of different types are never equal
PyNe(a, b) == IF a.t # b.t THEN TRUE ELSE a # b

\* reverse_ip = None, written as a third octet no address has
NoReverse == 256

\* mutant of ThirdOctetGuard: the octet is compared with the numbers 0 and 1
ThirdOctetGuard_numeric(third_octet) ==
    PyNe(PyInt(third_octet), PyInt(0)) /\ PyNe(PyInt(third_octet), PyInt(1))

\* if(third_octet != '0' or third_octet != '1'): third_octet is
\* int(gateway.split('.')[-2]) and both literals are strings
ThirdOctetGuard(third_octet) ==
    PyNe(PyInt(third_octet), PyStr("0")) \/ PyNe(PyInt(third_octet), PyStr("1"))

\* get_default_gateway_network: (base_ip, reverse_ip), a prefix a.b.c being
\* written as its third octet c (a.b is the gateway's in both)
get_default_gateway_network(third_octet) ==
    <<third_octet,
      IF ThirdOctetGuard(third_octet)
      THEN (IF third_octet = 0 THEN 1 ELSE 0)
      ELSE NoReverse>>

Addr(h) == <<networks[netIdx], h>>

Running == {h \in Hosts : probe[h] \in {"status", "capture"}}
Queued == {h \in Hosts : probe[h] = "queued"}

\* the work queue of the executor is first in, first out
HeadOfQueue(h) == h \in Queued /\ \A g \in Queued : h <= g

InitScan ==
    /\ last_announced = {}
    /\ esp32_url = None
    /\ windowOpen = FALSE
    /\ pc = "idle"
    /\ exitReason = "none"
    /\ image = "none"
    /\ detected_objects = {}
    /\ iter = 0
    /\ quitPending = FALSE
    /\ sayLog = <<>>
    /\ sayIters = <<>>
    /\ detLog = <<>>
    /\ polled = 0
    /\ pendingAtStart = FALSE
    /\ captureCount = 0
    /\ callLog = <<>>
    /\ outLog = <<>>
    /\ trackerRaised = FALSE
    /\ hasGateway \in BOOLEAN
    /\ gatewayThird \in Thirds
    /\ ~hasGateway => gatewayThird = 0
    /\ cameras \in {c \in SUBSET (Thirds \X Hosts) : Cardinality(c) <= 2}
    /\ ~hasGateway => cameras = {}
    /\ scanPc = "start"
    /\ scanError = "none"
    /\ networks = <<>>
    /\ netIdx = 0
    /\ probe = [h \in Hosts |-> "new"]
    /\ result = [h \in Hosts |-> FALSE]
    /\ consumed = {}
    /\ statusOK = {}
    /\ statusFailed = {}
    /\ captureIssued = {}
    /\ InitHistory

notScanBase == <<last_announced, runVars, sayLog, runHist, trackerHist,
                 runHist2, probeVars, clockVars>>
notScan == <<notScanBase, scanHist2>>

\* base_ip, reverse_ip = self.get_default_gateway_network();
\* networks = [base_ip, reverse_ip]; the first prefix gets its executor
GetGateway ==
    /\ scanPc = "start"
    /\ IF hasGateway
       THEN /\ networks' = get_default_gateway_network(gatewayThird)
            /\ netIdx' = 1
            /\ scanPc' = "submit"
            /\ UNCHANGED scanError
       ELSE /\ scanPc' = "raised"
            /\ scanError' = "gateway"
            /\ UNCHANGED <<networks, netIdx>>
    /\ UNCHANGED <<notScan, esp32_url, windowOpen, scanEnv, probe, result,
                   consumed, scanHist>>

\* executor.submit(self.verify_esp32_camera, f"{network}.{i}") for the next
\* i of range(1, 255); after the last one as_completed starts
Submit ==
    /\ scanPc = "submit"
    /\ \E h \in Hosts :
          /\ probe[h] = "new"
          /\ \A g \in Hosts : g < h => probe[g] # "new"
          /\ probe' = [probe EXCEPT ![h] = "queued"]
          /\ scanPc' = IF h = LastHost THEN "collect" ELSE "submit"
    /\ UNCHANGED <<notScan, esp32_url, windowOpen, scanEnv, scanError,
                   networks, netIdx, result, consumed, scanHist>>

\* mutant of WorkerStart: a thread per submitted probe
WorkerStart_nocap(h) ==
    /\ scanPc \in {"submit", "collect", "exit"}
    /\ HeadOfQueue(h)
    /\ probe' = [probe EXCEPT ![h] = "status"]
    /\ probedNets' = probedNets \cup {netIdx}
    /\ UNCHANGED <<notScanBase, esp32_url, windowOpen, scanEnv, scanPc,
                   scanError, networks, netIdx, result, consumed, scanHist,
                   exhausted>>

\* a worker thread of the pool takes the next work item and the probe
\* sends requests.get(f"{base_url}/status", timeout=1)
WorkerStart(h) ==
    /\ scanPc \in {"submit", "collect", "exit"}
    /\ HeadOfQueue(h)
    /\ Cardinality(Running) < MaxWorkers
    /\ probe' = [probe EXCEPT ![h] = "status"]
    /\ probedNets' = probedNets \cup {netIdx}
    /\ UNCHANGED <<notScanBase, esp32_url, windowOpen, scanEnv, scanPc,
                   scanError, networks, netIdx, result, consumed, scanHist,
                   exhausted>>

\* mutant of StatusReply: the status code is not looked at
StatusReply_nocheck(h) ==
    /\ probe[h] = "status"
    /\ \/ /\ statusOK' = statusOK \cup {Addr(h)}
          /\ UNCHANGED statusFailed
       \/ /\ Addr(h) \notin cameras
          /\ statusFailed' = statusFailed \cup {Addr(h)}
          /\ UNCHANGED statusOK
    /\ probe' = [probe EXCEPT ![h] = "capture"]
    /\ captureIssued' = captureIssued \cup {Addr(h)}
    /\ UNCHANGED <<notScan, esp32_url, windowOpen, scanEnv, scanPc, scanError,
                   networks, netIdx, result, consumed>>

\* the status request ends: 200 and the probe sends
\* requests.get(f"{base_url}/capture", timeout=2), or another status code
\* or a RequestException and the probe returns None
StatusReply(h) ==
    /\ probe[h] = "status"
    /\ \/ /\ statusOK' = statusOK \cup {Addr(h)}
          /\ probe' = [probe EXCEPT ![h] = "capture"]
          /\ captureIssued' = captureIssued \cup {Addr(h)}
          /\ UNCHANGED statusFailed
       \/ /\ Addr(h) \notin cameras
          /\ statusFailed' = statusFailed \cup {Addr(h)}
          /\ probe' = [probe EXCEPT ![h] = "done"]
          /\ UNCHANGED <<statusOK, captureIssued>>
    /\ UNCHANGED <<notScan, esp32_url, windowOpen, scanEnv, scanPc, scanError,
                   networks, netIdx, result, consumed>>

\* the capture request ends: 200 with a body Image.open accepts and the
\* probe returns base_url, or anything else and it returns None
CaptureReply(h) ==
    /\ probe[h] = "capture"
    /\ probe' = [probe EXCEPT ![h] = "done"]
    /\ result' = [result EXCEPT ![h] = (Addr(h) \in cameras)]
    /\ UNCHANGED <<notScan, esp32_url, windowOpen, scanEnv, scanPc, scanError,
                   networks, netIdx, consumed, scanHist>>

\* mutant of Collect: the first future to complete is taken as the camera
Collect_anyresult(h) ==
    /\ scanPc = "collect"
    /\ probe[h] = "done"
    /\ h \notin consumed
    /\ consumed' = consumed \cup {h}
    /\ esp32_url' = Addr(h)
    /\ scanPc' = "exit"
    /\ UNCHANGED <<notScan, windowOpen, scanEnv, scanError, networks, netIdx,
                   probe, result, scanHist>>

\* for future in as_completed(future_to_ip): result = future.result();
\* if result: self.esp32_url = result; return
Collect(h) ==
    /\ scanPc = "collect"
    /\ probe[h] = "done"
    /\ h \notin consumed
    /\ consumed' = consumed \cup {h}
    /\ IF result[h]
       THEN esp32_url' = Addr(h) /\ scanPc' = "exit"
       ELSE UNCHANGED <<esp32_url, scanPc>>
    /\ UNCHANGED <<notScan, windowOpen, scanEnv, scanError, networks, netIdx,
                   probe, result, scanHist>>

\* every probe of the prefix has run to its end and none has matched
Exhausted == \A h \in Hosts : probe[h] = "done" /\ ~result[h]

\* mutant of NextNetwork: the next prefix is taken up while results of this
\* one are still awaited
NextNetwork_early ==
    /\ scanPc = "collect"
    /\ exhausted' = IF Exhausted THEN exhausted \cup {netIdx} ELSE exhausted
    /\ IF netIdx < Len(networks)
       THEN /\ netIdx' = netIdx + 1
            /\ scanPc' = "submit"
            /\ probe' = [h \in Hosts |-> "new"]
            /\ result' = [h \in Hosts |-> FALSE]
            /\ consumed' = {}
            /\ statusOK' = {}
            /\ statusFailed' = {}
            /\ captureIssued' = {}
            /\ UNCHANGED scanError
       ELSE /\ scanPc' = "raised"
            /\ scanError' = "discovery"
            /\ UNCHANGED <<netIdx, probe, result, consumed, scanHist>>
    /\ UNCHANGED <<notScanBase, esp32_url, windowOpen, scanEnv, networks,
                   probedNets>>

\* as_completed is exhausted without a match: the with block ends and the
\* for loop takes the next prefix, or raises after the last one
NextNetwork ==
    /\ scanPc = "collect"
    /\ consumed = Hosts
    /\ exhausted' = IF Exhausted THEN exhausted \cup {netIdx} ELSE exhausted
    /\ IF netIdx < Len(networks)
       THEN /\ netIdx' = netIdx + 1
            /\ scanPc' = "submit"
            /\ probe' = [h \in Hosts |-> "new"]
            /\ result' = [h \in Hosts |-> FALSE]
            /\ consumed' = {}
            /\ statusOK' = {}
            /\ statusFailed' = {}
            /\ captureIssued' = {}
            /\ UNCHANGED scanError
       ELSE /\ scanPc' = "raised"
            /\ scanError' = "discovery"
            /\ UNCHANGED <<netIdx, probe, result, consumed, scanHist>>
    /\ UNCHANGED <<notScanBase, esp32_url, windowOpen, scanEnv, networks,
                   probedNets>>

\* return inside the with block: ThreadPoolExecutor.__exit__ calls
\* shutdown(wait=True), which joins the workers after they have run every
\* submitted probe; then discover_esp32 returns
ExitPool ==
    /\ scanPc = "exit"
    /\ \A h \in Hosts : probe[h] = "done"
    /\ scanPc' = "returned"
    /\ UNCHANGED <<notScan, esp32_url, windowOpen, scanEnv, scanError,
                   networks, netIdx, probe, result, consumed, scanHist>>

\* if not self.esp32_url: raise Exception(...); cv2.namedWindow(...)
Construct ==
    /\ scanPc = "returned"
    /\ IF esp32_url = None
       THEN /\ scanPc' = "raised"
            /\ scanError' = "nourl"
            /\ UNCHANGED windowOpen
       ELSE /\ scanPc' = "constructed"
            /\ windowOpen' = TRUE
            /\ UNCHANGED scanError
    /\ UNCHANGED <<notScan, esp32_url, scanEnv, networks, netIdx, probe,
                   result, consumed, scanHist>>

\* mutant of EnterRun: main goes on to run() whatever __init__ did
EnterRun_unguarded ==
    /\ scanPc \in {"constructed", "raised"}
    /\ pc = "idle"
    /\ pc' = "capture"
    /\ UNCHANGED <<objVars, exitReason, image, detected_objects, iter,
                   quitPending, sayLog, runHist, trackerHist, scanVars,
                   runHist2>>

\* main: detector = ESP32ObjectDetector() has returned; detector.run()
EnterRun ==
    /\ scanPc = "constructed"
    /\ pc = "idle"
    /\ pc' = "capture"
    /\ UNCHANGED <<objVars, exitReason, image, detected_objects, iter,
                   quitPending, sayLog, runHist, trackerHist, scanVars,
                   runHist2>>

\* __init__ as main runs it, up to the first capture of run()
NextScan ==
    \/ GetGateway
    \/ Submit
    \/ \E h \in Hosts : WorkerStart(h)
    \/ \E h \in Hosts : StatusReply(h)
    \/ \E h \in Hosts : CaptureReply(h)
    \/ \E h \in Hosts : Collect(h)
    \/ NextNetwork
    \/ ExitPool
    \/ Construct
    \/ EnterRun
    \/ Capture

SpecScan == InitScan /\ [][NextScan]_vars

\* -------------------------------------------------------------- SpecProbe
\* what requests.get gives: a response with a status code, or an exception
HttpOutcomes == {"200", "404", "timeout", "refused"}

\* the outcomes that are raised as a subclass of requests.RequestException
\* (Timeout and ConnectionError)
RequestException == {"timeout", "refused"}

\* the body of a 200 capture response: decodable by Image.open or not
Bodies == {"jpeg", "garbage"}

\* a request that was not made, and the body of a response that has none
Unsent == "unsent"

\* mutant of verify_esp32_camera: no except clause around the two requests
verify_esp32_camera_noexcept(status, capture, body) ==
    IF status \in RequestException THEN "raise"
    ELSE IF status # "200" THEN "None"
    ELSE IF capture \in RequestException THEN "raise"
    ELSE IF capture # "200" THEN "None"
    ELSE IF body = "jpeg" THEN "url"
    ELSE "None"

\* verify_esp32_camera(self, ip): "url" for return base_url, "None" for
\* return None, "raise" for an exception that leaves the method
verify_esp32_camera(status, capture, body) ==
    IF status \in RequestException THEN "None"
    ELSE IF status # "200" THEN "None"
    ELSE IF capture \in RequestException THEN "None"
    ELSE IF capture # "200" THEN "None"
    ELSE IF body = "jpeg" THEN "url"
    ELSE "None"

notProbe == <<objVars, runVars, sayLog, runHist, trackerHist, scanEnv,
              scanState, scanHist, scanHist2, runHist2, clockVars>>

InitProbe ==
    /\ InitTracker
    /\ vPc = "idle"

\* requests.get(f"{base_url}/status", timeout=1): the call ends here unless
\* the status code is 200
VerifyStatus ==
    /\ vPc = "idle"
    /\ Len(probeLog) < MaxProbes
    /\ \E s \in HttpOutcomes :
          IF s = "200"
          THEN /\ vPc' = "capture"
               /\ UNCHANGED probeLog
          ELSE /\ probeLog' = Append(probeLog,
                     [status |-> s, capture |-> Unsent, body |-> Unsent,
                      result |-> verify_esp32_camera(s, Unsent, Unsent)])
               /\ UNCHANGED vPc
    /\ UNCHANGED notProbe

\* requests.get(f"{base_url}/capture", timeout=2) and Image.open of the body
VerifyCapture ==
    /\ vPc = "capture"
    /\ \E c \in HttpOutcomes :
       \E b \in IF c = "200" THEN Bodies ELSE {Unsent} :
          probeLog' = Append(probeLog,
               [status |-> "200", capture |-> c, body |-> b,
                result |-> verify_esp32_camera("200", c, b)])
    /\ vPc' = "idle"
    /\ UNCHANGED notProbe

NextProbe ==
    \/ VerifyStatus
    \/ VerifyCapture

SpecProbe == InitProbe /\ [][NextProbe]_vars

\* ------------------------------------------------------------ SpecCapture
\* int(time.time()) at the tick t of the clock
cache_buster(t) == t \div TicksPerSecond

notClock == <<objVars, runVars, sayLog, runHist, trackerHist, scanEnv,
              scanState, scanHist, scanHist2, runHist2, probeVars>>

InitCapture ==
    /\ InitTracker
    /\ now = 0

\* the wall clock advances
Tick ==
    /\ now < MaxTime
    /\ now' = now + 1
    /\ UNCHANGED <<notClock, callTimes, cbLog>>

\* capture_image(self): the request carries _cb = int(time.time())
CaptureRequest ==
    /\ Len(cbLog) < MaxCaptures
    /\ cbLog' = Append(cbLog, cache_buster(now))
    /\ callTimes' = Append(callTimes, now)
    /\ UNCHANGED <<notClock, now>>

NextCapture ==
    \/ Tick
    \/ CaptureRequest

SpecCapture == InitCapture /\ [][NextCapture]_vars

\* ===================================================== claims: the tracker
Prev(k) == IF k = 1 THEN {} ELSE callLog[k - 1]

NonEmptySets(log) == SelectSeq(log, LAMBDA x : x # {})

\* C1: for a sequence of non-empty label sets L1, L2, ... passed to
\* announce_objects from an empty last_announced, call k announces exactly
\* Lk minus L(k-1) (nothing when that is empty) and leaves last_announced = Lk;
\* {dog}, {dog}, {dog,cat} gives {dog}, nothing, {cat} and ends in {dog,cat}.
C1_AnnounceSequence ==
    (\A k \in 1..Len(callLog) : callLog[k] # {}) =>
        /\ \A k \in 1..Len(outLog) : outLog[k] = callLog[k] \ Prev(k)
        /\ ~trackerRaised =>
              /\ Len(outLog) = Len(callLog)
              /\ sayLog = NonEmptySets(outLog)
              /\ last_announced = IF callLog = <<>> THEN {} ELSE Last(callLog)
        /\ (callLog = <<{"dog"}, {"dog"}, {"dog", "cat"}>> /\ ~trackerRaised) =>
              /\ outLog = <<{"dog"}, {}, {"cat"}>>
              /\ sayLog = <<{"dog"}, {"cat"}>>
              /\ last_announced = {"dog", "cat"}

C1_Witness ==
    /\ callLog = <<{"dog"}, {"dog"}, {"dog", "cat"}>>
    /\ outLog = <<{"dog"}, {}, {"cat"}>>
    /\ last_announced = {"dog", "cat"}
    /\ ~trackerRaised

\* ========================================================= claims: run()
\* every iteration so far captured a frame and detected exactly {person}
AllPerson ==
    \A k \in 1..Len(detLog) : detLog[k] = [frame |-> TRUE, labels |-> {"person"}]

\* the announce step of iteration n has returned
AnnounceDone(n) ==
    \/ n < Len(detLog)
    \/ /\ n = Len(detLog)
       /\ n = iter
       /\ \/ pc \in {"show", "poll", "sleep", "capture"}
          \/ exitReason = "quit"

\* the labels spoken in iteration n
SpokenIn(n) ==
    UNION {sayLog[k] : k \in {j \in 1..Len(sayLog) : sayIters[j] = n}}

\* C2: when every capture succeeds and every detection returns {person}, the
\* announcer is invoked exactly once, in the first iteration, with person,
\* and never again in a later iteration.
C2_PersonOnce ==
    AllPerson =>
        /\ Len(sayLog) <= 1
        /\ \A k \in 1..Len(sayLog) : sayLog[k] = {"person"} /\ sayIters[k] = 1
        /\ (Len(detLog) >= 1 /\ AnnounceDone(1)) => Len(sayLog) = 1

C2_Witness ==
    /\ AllPerson
    /\ Len(detLog) = 3
    /\ AnnounceDone(3)
    /\ sayLog = <<{"person"}>>
    /\ sayIters = <<1>>

\* label l was detected in iteration a after having been announced, is
\* absent from every iteration between a and n (there is at least one), and
\* is detected again in iteration n, whose announce step has returned
Reappears(l, a, n) ==
    /\ a \in 1..Len(detLog)
    /\ n \in 1..Len(detLog)
    /\ a + 1 < n
    /\ l \in detLog[a].labels
    /\ \E b \in 1..a : l \in SpokenIn(b)
    /\ \A m \in (a + 1)..(n - 1) : l \notin detLog[m].labels
    /\ l \in detLog[n].labels
    /\ AnnounceDone(n)

\* C3 as stated: a label that was announced, is absent from one or more
\* following iterations (also ones that detect nothing or capture no frame)
\* and is detected again, is announced in the iteration where it reappears.
C3_Original ==
    \A l \in Labels : \A a \in 1..Len(detLog) : \A n \in 1..Len(detLog) :
        Reappears(l, a, n) => l \in SpokenIn(n)

\* C3 amended: such a label is announced again in the iteration where it
\* reappears exactly when some iteration in between detected a non-empty
\* label set; iterations that detect nothing or capture no frame leave
\* last_announced alone and cause no second announcement.
C3_Reannounce ==
    \A l \in Labels : \A a \in 1..Len(detLog) : \A n \in 1..Len(detLog) :
        Reappears(l, a, n) =>
            (l \in SpokenIn(n)
                <=> \E m \in (a + 1)..(n - 1) : detLog[m].labels # {})

C3_Witness ==
    \E l \in Labels : \E a \in 1..Len(detLog) : \E n \in 1..Len(detLog) :
        /\ Reappears(l, a, n)
        /\ l \in SpokenIn(n)

\* C4 as stated: a failure of the detection, persist or announce stage is
\* caught and the loop goes on; it never moves the loop to Stopped.
C4_FailureContinues ==
    exitReason = "error" => pc \in LoopPcs

\* C7: on every exit path of run() (quit key, interrupt, exception in a
\* stage) destroyAllWindows is called before run() returns, and no capture
\* is issued once the loop has been cancelled.
C7_ReleaseOnExit ==
    /\ [](pc = "returned" => ~windowOpen)
    /\ [](exitReason # "none" => pc \in {"finally", "returned"})
    /\ [][exitReason # "none" => captureCount' = captureCount]_vars

C7_Witness ==
    /\ pc = "returned"
    /\ exitReason = "error"
    /\ ~windowOpen
    /\ captureCount = 2

\* C8 as stated: the quit signal is polled once in every iteration, so a
\* pending quit request stops the loop at the next iteration boundary
\* whether or not that iteration captured a frame.
C8_Original ==
    pc = "sleep" => (polled = 1 /\ ~pendingAtStart)

\* C8 amended: the quit signal is polled once, after the display update, in
\* every iteration that captured a frame and raised nothing, and a quit
\* request pending then stops the loop before the sleep; an iteration that
\* captured no frame does not poll and a pending request stays pending.
C8_PollOnFrame ==
    /\ polled <= 1
    /\ pc = "sleep" =>
          IF image = "frame"
          THEN polled = 1 /\ ~pendingAtStart
          ELSE polled = 0 /\ (pendingAtStart => quitPending)
    /\ exitReason = "quit" => (polled = 1 /\ image = "frame")

C8_Witness ==
    /\ pc = "returned"
    /\ exitReason = "quit"
    /\ pendingAtStart
    /\ iter = 2
    /\ detLog[1] = [frame |-> FALSE, labels |-> {}]


\* ===================================================== claims: discovery
\* the addresses of the prefixes discover_esp32 scans for this gateway
Scanned == {a \in Thirds \X Hosts :
               \E i \in 1..2 : get_default_gateway_network(gatewayThird)[i] = a[1]}

ScannedCameras == cameras \cap Scanned

\* C5 as stated: once a probe has reported a match, discover_esp32 returns
\* the endpoint without waiting for the probes still queued or in flight:
\* its return never depends on those probes completing.
C5_ReturnWithoutWaiting ==
    (scanPc = "exit" /\ esp32_url # None) => ENABLED ExitPool

\* C6: with exactly one valid camera among the scanned prefixes,
\* discover_esp32 sets esp32_url to it, whatever the order in which the
\* probes complete; with none it fails with the discovery error and
\* esp32_url stays unset.  The scan never gets stuck on the way.
C6_FindsTheCamera ==
    /\ Cardinality(ScannedCameras) = 1 =>
          /\ scanError # "discovery"
          /\ esp32_url \in {None} \cup ScannedCameras
          /\ scanPc \in {"exit", "returned", "constructed"} =>
                esp32_url \in ScannedCameras
    /\ ScannedCameras = {} =>
          /\ esp32_url = None
          /\ scanPc \notin {"exit", "returned", "constructed"}
          /\ (scanPc = "raised" /\ hasGateway) => scanError = "discovery"
    /\ scanPc \notin {"constructed", "raised"} => ENABLED NextScan

C6_Witness ==
    /\ Cardinality(ScannedCameras) = 1
    /\ scanPc = "returned"
    /\ netIdx = 2
    /\ esp32_url \in cameras
    /\ esp32_url[1] = networks[2]

\* C9: the probes executing at the same time never exceed the worker cap,
\* while every host of the prefix is submitted before the results are
\* collected.
C9_WorkerCap ==
    /\ Cardinality(Running) <= MaxWorkers
    /\ scanPc \in {"collect", "exit"} => \A h \in Hosts : probe[h] # "new"
    /\ scanPc = "submit" => consumed = {}

C9_Witness ==
    /\ scanPc = "collect"
    /\ Cardinality(Running) = MaxWorkers
    /\ Queued # {}

\* C10: when the status check of an address does not succeed the probe
\* returns no match and sends no capture request: a capture request of a
\* probe always follows a successful status response of that probe.
C10_NoCaptureAfterFailedStatus ==
    /\ captureIssued \subseteq statusOK
    /\ statusFailed \cap captureIssued = {}
    /\ \A h \in Hosts :
          /\ probe[h] = "capture" => Addr(h) \in captureIssued
          /\ (netIdx > 0 /\ Addr(h) \in statusFailed) =>
                (probe[h] = "done" /\ ~result[h])

C10_Witness ==
    /\ scanPc = "collect"
    /\ \E h \in Hosts : Addr(h) \in statusFailed /\ probe[h] = "done"
    /\ \E h \in Hosts : Addr(h) \in captureIssued /\ Addr(h) \notin cameras


\* ================================================ claims: run(), continued
NoFrame == [frame |-> FALSE, labels |-> {}]

StagesRun == {stages[k] : k \in 1..Len(stages)}

\* the current iteration has its entry in detLog
ResultKnown == iter >= 1 /\ Len(detLog) = iter

\* C13: an iteration whose capture yields no frame, whatever the failure,
\* runs no detection, no save, no announcement, no display update and no
\* poll, goes straight to the sleep and the loop goes on to a further
\* capture; a capture failure never ends the loop.
C13_NoFrameSkipsToSleep ==
    /\ (iter >= 1 /\ image = "none") =>
          /\ stages = <<>>
          /\ polled = 0
          /\ SpokenIn(iter) = {}
          /\ ResultKnown /\ Last(detLog) = NoFrame
          /\ pc \in {"sleep", "capture", "finally", "returned"}
          /\ exitReason \in {"none", "interrupt"}
    /\ exitReason = "error" => (image = "frame" /\ stages # <<>>)
    /\ (pc = "sleep" /\ image = "none") => ENABLED Sleep
    /\ (pc = "capture" /\ iter < MaxIter) => ENABLED Capture

C13_Witness ==
    /\ iter = 2
    /\ captureCount = 2
    /\ detLog[1] = NoFrame
    /\ pc = "detect"
    /\ savedLog = <<>>

\* C14: between the start of a capture and the start of the next one the
\* loop sleeps one full capture_interval, in iterations with a frame and in
\* iterations without one, so two consecutive captures are never less than
\* capture_interval apart.
C14_IntervalBetweenCaptures ==
    /\ captureCount >= 2 => lastGap >= capture_interval
    /\ (pc = "capture" /\ iter >= 1) => sinceCapture >= capture_interval

C14_Witness ==
    /\ captureCount = 3
    /\ detLog[1].frame
    /\ detLog[2] = NoFrame
    /\ lastGap = capture_interval

\* the label segment each set of the sample class names is to give
ExpectedSegment(labels) ==
    CASE labels = {"cat"} -> "cat"
      [] labels = {"dog"} -> "dog"
      [] labels = {"person"} -> "person"
      [] labels = {"cat", "dog"} -> "cat-dog"
      [] labels = {"cat", "person"} -> "cat-person"
      [] labels = {"dog", "person"} -> "dog-person"
      [] labels = {"cat", "dog", "person"} -> "cat-dog-person"
      [] OTHER -> ""

\* C16: the label segment of the saved filename depends only on the set of
\* detected labels, not on the order they are iterated in: it is the labels
\* sorted lexicographically and joined by '-'; {dog,cat} gives cat-dog.
C16_SegmentSorted ==
    \A k \in 1..Len(savedLog) :
        /\ savedLog[k].segment = ExpectedSegment(savedLog[k].labels)
        /\ \A j \in 1..Len(savedLog) :
              savedLog[j].labels = savedLog[k].labels =>
                 savedLog[j].segment = savedLog[k].segment

C16_Witness ==
    /\ Len(savedLog) = 2
    /\ savedLog[1] = [labels |-> {"dog", "cat"}, segment |-> "cat-dog"]
    /\ savedLog[2] = [labels |-> {"cat", "dog"}, segment |-> "cat-dog"]

\* C18: an iteration that captures no frame or detects an empty label set
\* leaves last_announced unchanged, saves no file and speaks nothing;
\* last_announced changes only in an iteration with a non-empty label set,
\* where it is exactly that set after the announcement step.
C18_EmptyIterationKeepsState ==
    /\ (ResultKnown /\ Last(detLog).labels = {}) =>
          /\ last_announced = lastAtStart
          /\ StagesRun \cap {"save", "announce"} = {}
          /\ SpokenIn(iter) = {}
    /\ last_announced # lastAtStart =>
          /\ ResultKnown
          /\ Last(detLog).labels # {}
          /\ "announce" \in StagesRun
          /\ last_announced = Last(detLog).labels
    /\ (ResultKnown /\ Last(detLog).labels # {} /\ AnnounceDone(iter)) =>
          last_announced = Last(detLog).labels
    /\ Len(savedLog) <= Cardinality({k \in 1..Len(detLog) : detLog[k].labels # {}})

C18_Witness ==
    /\ iter = 3
    /\ pc = "sleep"
    /\ detLog = <<[frame |-> TRUE, labels |-> {"dog"}], NoFrame,
                  [frame |-> TRUE, labels |-> {}]>>
    /\ last_announced = {"dog"}
    /\ Len(savedLog) = 1


\* ============================================ claims: the tracker, continued
\* the last non-empty set of a sequence of label sets, {} when there is none
RECURSIVE LastNonEmpty(_)
LastNonEmpty(log) ==
    IF log = <<>> THEN {}
    ELSE IF Last(log) # {} THEN Last(log)
    ELSE LastNonEmpty(SubSeq(log, 1, Len(log) - 1))

\* C17 as stated: announce_objects(labels) replaces the stored state with
\* labels unconditionally, also when labels is empty.
C17_Original ==
    (callLog # <<>> /\ ~trackerRaised) => last_announced = Last(callLog)

\* C17 amended: announce_objects(labels) replaces the stored state with
\* labels whenever labels is non-empty and the speech does not raise; a call
\* with an empty set returns at once and leaves last_announced as it was.
C17_ReplacesUnlessEmpty ==
    ~trackerRaised =>
        /\ last_announced = LastNonEmpty(callLog)
        /\ (callLog # <<>> /\ Last(callLog) # {}) =>
              last_announced = Last(callLog)

C17_Witness ==
    /\ callLog = <<{"dog"}, {}>>
    /\ sayLog = <<{"dog"}>>
    /\ last_announced = {"dog"}
    /\ ~trackerRaised

\* ============================================ claims: discovery, continued
\* C15: when no default gateway can be determined, or no camera is found on
\* any scanned prefix, construction fails before the loop starts: run() is
\* not entered, no window is created and no loop capture is issued.
C15_FailsBeforeLoop ==
    /\ scanError # "none" =>
          /\ scanPc = "raised"
          /\ esp32_url = None
          /\ pc = "idle"
          /\ ~windowOpen
          /\ captureCount = 0
    /\ (~hasGateway \/ ScannedCameras = {}) =>
          /\ scanPc # "constructed"
          /\ pc = "idle"
          /\ ~windowOpen
          /\ captureCount = 0
    /\ (~hasGateway /\ scanPc # "start") => scanError = "gateway"
    /\ pc # "idle" => (scanPc = "constructed" /\ windowOpen /\ esp32_url # None)

C15_Witness ==
    /\ hasGateway
    /\ cameras # {}
    /\ scanPc = "raised"
    /\ scanError = "discovery"
    /\ pc = "idle"
    /\ ~windowOpen

\* C19: the prefixes are scanned in order: no probe of the secondary prefix
\* starts before every probe of the primary prefix has completed without a
\* match, and a match on the primary prefix leaves the secondary unprobed.
C19_PrefixesInOrder ==
    /\ probedNets \subseteq 1..netIdx
    /\ 2 \in probedNets => (1 \in exhausted /\ netIdx = 2)
    /\ netIdx = 2 => 1 \in exhausted
    /\ (esp32_url # None /\ esp32_url[1] = networks[1]) => 2 \notin probedNets

C19_Witness ==
    /\ 2 \in probedNets
    /\ 1 \in exhausted
    /\ esp32_url # None
    /\ esp32_url[1] = networks[2]

\* C20: for every default gateway a.b.c.d, get_default_gateway_network gives
\* the primary prefix a.b.c and a secondary prefix that is always there and
\* differs from the primary: a.b.1 when c is 0, a.b.0 otherwise; the guard on
\* the third octet never suppresses it, so discovery has two prefixes.
C20_SecondaryAlwaysPresent ==
    /\ \A c \in Thirds : ThirdOctetGuard(c)
    /\ (hasGateway /\ scanPc # "start") =>
          /\ Len(networks) = 2
          /\ networks[1] = gatewayThird
          /\ networks[2] = IF gatewayThird = 0 THEN 1 ELSE 0
          /\ networks[2] # NoReverse
          /\ networks[2] # networks[1]

C20_Witness ==
    /\ gatewayThird = 1
    /\ networks = <<1, 0>>
    /\ netIdx = 2
    /\ probedNets = {1, 2}

\* ============================================ claims: verify_esp32_camera
\* C11: verify_esp32_camera returns the base URL if and only if the status
\* check succeeded, the capture request succeeded and the capture body
\* decodes as an image; in every other outcome of either stage (timeout,
\* refused connection, non-success status, undecodable body) it returns None,
\* and no error leaves it.
C11_UrlIffAllStagesSucceed ==
    \A i \in 1..Len(probeLog) :
        /\ probeLog[i].result \in {"url", "None"}
        /\ probeLog[i].result = "url" <=>
              /\ probeLog[i].status = "200"
              /\ probeLog[i].capture = "200"
              /\ probeLog[i].body = "jpeg"
        /\ probeLog[i].status # "200" => probeLog[i].capture = Unsent

C11_Witness ==
    /\ Len(probeLog) = 3
    /\ probeLog[1].status = "timeout" /\ probeLog[1].result = "None"
    /\ probeLog[2].status = "200" /\ probeLog[2].body = "garbage"
    /\ probeLog[2].result = "None"
    /\ probeLog[3].body = "jpeg" /\ probeLog[3].result = "url"

\* ================================================== claims: capture_image
\* C12: any two consecutive calls of capture_image issue requests whose _cb
\* values are not equal, whatever the time between the two calls.
C12_ConsecutiveCbDiffer ==
    \A i \in 1..(Len(cbLog) - 1) : cbLog[i] # cbLog[i + 1]

=============================================================================
